---- MODULE Spec2Model ----
(***************************************************************************)
(* A model of coven (src/coven.py): the control-flow analyzer              *)
(* crawl_code_insts, the worklist traversal visit_nodes, the reconciler    *)
(* calculate_coverage, the report loop over the code units of a path, the  *)
(* tracers of install_trace and the snapshot merger coalesce.              *)
(*                                                                         *)
(* Representation.  An Instruction object is identified by its logical     *)
(* offset (dis.Instruction is a named tuple whose equality includes the    *)
(* offset); the pseudo-instructions _begin_inst and _raised_inst are the   *)
(* offsets OFF_BEGIN and OFF_RAISED.  A dict from edges to sets of lines   *)
(* (req, opt, matched) is the set of <<src, dst, line>> triples: a key     *)
(* exists exactly when a line was added under it.  Python's None is        *)
(* NoneVal where an offset or a line is expected.                          *)
(***************************************************************************)
EXTENDS Integers, Sequences, FiniteSets, TLC

\* ---------------------------------------------------------------- constants
OFF_BEGIN == -1
OFF_RAISED == -2
LINE_BEGIN == -1
LINE_RAISED == -2
LINE_RETURN == -3
OP_BEGIN == "_BEGIN"
OP_RAISED == "_RAISED"
\* The positions of the required and the matched set in a coverage entry
\* (indices 0 and 1 of the source's tuple; tuples are indexed from 1 here).
COV_REQ == 1
COV_MATCHED == 2
NoneVal == -10

jump_opcodes ==
  {"CONTINUE_LOOP", "FOR_ITER", "JUMP_ABSOLUTE", "JUMP_IF_FALSE_OR_POP",
   "JUMP_IF_TRUE_OR_POP", "POP_JUMP_IF_FALSE", "POP_JUMP_IF_TRUE", "JUMP_FORWARD"}

stop_opcodes ==
  {"BREAK_LOOP", "CONTINUE_LOOP", "JUMP_ABSOLUTE", "JUMP_FORWARD",
   "RAISE_VARARGS", "RETURN_VALUE", "YIELD_VALUE", "YIELD_FROM"}

setup_opcodes ==
  {"SETUP_ASYNC_WITH", "SETUP_EXCEPT", "SETUP_FINALLY", "SETUP_LOOP", "SETUP_WITH"}

setup_exc_opcodes ==
  {"SETUP_ASYNC_WITH", "SETUP_EXCEPT", "SETUP_FINALLY", "SETUP_WITH"}

\* ------------------------------------------------------------------ inputs
\* A raw instruction as dis.get_instructions yields it: opcode, argval (a jump
\* or handler offset where the opcode has one), the part of argval/argrepr the
\* analyzer compares ("None", "exit", "exception match"), and starts_line
\* (NoneVal when the instruction starts no line).  The i-th instruction of a
\* code unit has raw offset 2 * (i - 1) (CPython 3.7 wordcode).
I(op, arg, tag, sl) == [opcode |-> op, argval |-> arg, tag |-> tag, starts_line |-> sl]
X(op) == I(op, NoneVal, "", NoneVal)
XL(op, sl) == I(op, NoneVal, "", sl)
J(op, target) == I(op, target, "", NoneVal)
JL(op, target, sl) == I(op, target, "", sl)

\* def f(): return 1            (the body on line 2)
CodeRet1 ==
  << XL("LOAD_CONST", 2), X("RETURN_VALUE") >>

\* def f(a):
\*   if a:            # 2
\*     g()            # 3
CodeIfJoin ==
  << XL("LOAD_FAST", 2), J("POP_JUMP_IF_FALSE", 10),
     XL("LOAD_GLOBAL", 3), X("CALL_FUNCTION"), X("POP_TOP"),
     I("LOAD_CONST", NoneVal, "None", NoneVal), X("RETURN_VALUE") >>

\* def f(it):
\*   for i in it:     # 2
\*     break          # 3
CodeForBreak ==
  << JL("SETUP_LOOP", 16, 2), X("LOAD_FAST"), X("GET_ITER"), J("FOR_ITER", 14),
     X("STORE_FAST"), XL("BREAK_LOOP", 3), J("JUMP_ABSOLUTE", 6), X("POP_BLOCK"),
     I("LOAD_CONST", NoneVal, "None", NoneVal), X("RETURN_VALUE") >>

\* def f(it):
\*   for i in it:     # 2
\*     g(i)           # 3
CodeForLoop ==
  << JL("SETUP_LOOP", 22, 2), X("LOAD_FAST"), X("GET_ITER"), J("FOR_ITER", 20),
     X("STORE_FAST"), XL("LOAD_GLOBAL", 3), X("LOAD_FAST"), X("CALL_FUNCTION"),
     X("POP_TOP"), J("JUMP_ABSOLUTE", 6), X("POP_BLOCK"),
     I("LOAD_CONST", NoneVal, "None", NoneVal), X("RETURN_VALUE") >>

\* src/test/exc-TA-ret_{}.py, lines renumbered from 9..13 to 1..5:
\* def top(arg):
\*   try:                 # 1
\*     try_(arg)          # 2
\*   except E1 as e1:     # 3
\*     return True        # 4
\*   return False         # 5
CodeExcAsRet ==
  << JL("SETUP_EXCEPT", 14, 1), XL("LOAD_GLOBAL", 2), X("LOAD_FAST"),
     X("CALL_FUNCTION"), X("POP_TOP"), X("POP_BLOCK"), J("JUMP_FORWARD", 46),
     XL("DUP_TOP", 3), X("LOAD_GLOBAL"),
     I("COMPARE_OP", NoneVal, "exception match", NoneVal),
     J("POP_JUMP_IF_FALSE", 44), X("POP_TOP"), X("STORE_FAST"), X("POP_TOP"),
     J("SETUP_FINALLY", 34), XL("LOAD_CONST", 4), X("RETURN_VALUE"),
     I("LOAD_CONST", NoneVal, "None", NoneVal), X("STORE_FAST"), X("DELETE_FAST"),
     X("END_FINALLY"), J("JUMP_FORWARD", 46), X("END_FINALLY"),
     XL("LOAD_CONST", 5), X("RETURN_VALUE") >>

\* def f():
\*   with c():        # 2
\*     g()            # 3
CodeWith ==
  << XL("LOAD_GLOBAL", 2), X("CALL_FUNCTION"), J("SETUP_WITH", 18), X("POP_TOP"),
     XL("LOAD_GLOBAL", 3), X("CALL_FUNCTION"), X("POP_TOP"), X("POP_BLOCK"),
     I("LOAD_CONST", NoneVal, "None", NoneVal), X("WITH_CLEANUP_START"),
     X("WITH_CLEANUP_FINISH"), X("END_FINALLY"),
     I("LOAD_CONST", NoneVal, "None", NoneVal), X("RETURN_VALUE") >>

\* def f():
\*   yield 1          # 2
\*   yield 2          # 3
CodeGen ==
  << XL("LOAD_CONST", 2), X("YIELD_VALUE"), X("POP_TOP"),
     XL("LOAD_CONST", 3), X("YIELD_VALUE"), X("POP_TOP"),
     I("LOAD_CONST", NoneVal, "None", NoneVal), X("RETURN_VALUE") >>

\* def f():
\*   try:             # 2
\*     g()            # 3
\*   finally:
\*     h()            # 5
CodeTryFinally ==
  << JL("SETUP_FINALLY", 12, 2), XL("LOAD_GLOBAL", 3), X("CALL_FUNCTION"),
     X("POP_TOP"), X("POP_BLOCK"), I("LOAD_CONST", NoneVal, "None", NoneVal),
     XL("LOAD_GLOBAL", 5), X("CALL_FUNCTION"), X("POP_TOP"), X("END_FINALLY"),
     I("LOAD_CONST", NoneVal, "None", NoneVal), X("RETURN_VALUE") >>

\* def f():
\*   try:             # 2
\*     yield 1        # 3
\*   finally:
\*     g()            # 5
CodeGenFinally ==
  << JL("SETUP_FINALLY", 12, 2), XL("LOAD_CONST", 3), X("YIELD_VALUE"),
     X("POP_TOP"), X("POP_BLOCK"), I("LOAD_CONST", NoneVal, "None", NoneVal),
     XL("LOAD_GLOBAL", 5), X("CALL_FUNCTION"), X("POP_TOP"), X("END_FINALLY"),
     I("LOAD_CONST", NoneVal, "None", NoneVal), X("RETURN_VALUE") >>

\* def f():
\*   try:             # 2
\*     raise E        # 3
\*   except:          # 4
\*     pass           # 5
CodeTryRaise ==
  << JL("SETUP_EXCEPT", 10, 2), XL("LOAD_GLOBAL", 3), X("RAISE_VARARGS"),
     X("POP_BLOCK"), J("JUMP_FORWARD", 22),
     XL("POP_TOP", 4), X("POP_TOP"), X("POP_TOP"),
     XL("POP_EXCEPT", 5), J("JUMP_FORWARD", 22), X("END_FINALLY"),
     I("LOAD_CONST", NoneVal, "None", NoneVal), X("RETURN_VALUE") >>

\* def f():
\*   exit(1)          # 2
CodeExit ==
  << I("LOAD_GLOBAL", NoneVal, "exit", 2), X("LOAD_CONST"), X("CALL_FUNCTION"),
     X("POP_TOP"), I("LOAD_CONST", NoneVal, "None", NoneVal), X("RETURN_VALUE") >>

\* A hand-assembled code unit: return 1 on line 2, the constant's index written
\* with an EXTENDED_ARG prefix.
CodeExtArg ==
  << XL("EXTENDED_ARG", 2), X("LOAD_CONST"), X("RETURN_VALUE") >>

\* A hand-assembled code unit: a break-loop with no block around it at all.
\*   break            # 2
CodeBreakNoLoop ==
  << XL("BREAK_LOOP", 2), I("LOAD_CONST", NoneVal, "None", NoneVal), X("RETURN_VALUE") >>

\* A hand-assembled code unit: a break-loop inside a try block, outside any loop.
\*   try:             # 2
\*     break          # 3
\*   except:          # 4
\*     pass           # 5
CodeBreakInTry ==
  << JL("SETUP_EXCEPT", 8, 2), XL("BREAK_LOOP", 3), X("POP_BLOCK"), J("JUMP_FORWARD", 20),
     XL("POP_TOP", 4), X("POP_TOP"), X("POP_TOP"),
     XL("POP_EXCEPT", 5), J("JUMP_FORWARD", 20), X("END_FINALLY"),
     I("LOAD_CONST", NoneVal, "None", NoneVal), X("RETURN_VALUE") >>

\* def f():
\*   try:             # 2
\*     g()            # 3
\*   except E:        # 4
\*     pass           # 5
\*   finally:
\*     k()            # 7
CodeTEF ==
  << JL("SETUP_FINALLY", 38, 2), J("SETUP_EXCEPT", 14), XL("LOAD_GLOBAL", 3),
     X("CALL_FUNCTION"), X("POP_TOP"), X("POP_BLOCK"), J("JUMP_FORWARD", 34),
     XL("DUP_TOP", 4), X("LOAD_GLOBAL"),
     I("COMPARE_OP", NoneVal, "exception match", NoneVal),
     J("POP_JUMP_IF_FALSE", 32), X("POP_TOP"), X("POP_TOP"), X("POP_TOP"),
     XL("POP_EXCEPT", 5), J("JUMP_FORWARD", 34), X("END_FINALLY"), X("POP_BLOCK"),
     I("LOAD_CONST", NoneVal, "None", NoneVal),
     XL("LOAD_GLOBAL", 7), X("CALL_FUNCTION"), X("POP_TOP"), X("END_FINALLY"),
     I("LOAD_CONST", NoneVal, "None", NoneVal), X("RETURN_VALUE") >>

\* def f():
\*   try:             # 2
\*     g()            # 3
\*   except:          # 4
\*     pass           # 5
\*   finally:
\*     k()            # 7
CodeTEFBare ==
  << JL("SETUP_FINALLY", 30, 2), J("SETUP_EXCEPT", 14), XL("LOAD_GLOBAL", 3),
     X("CALL_FUNCTION"), X("POP_TOP"), X("POP_BLOCK"), J("JUMP_FORWARD", 26),
     XL("POP_TOP", 4), X("POP_TOP"), X("POP_TOP"),
     XL("POP_EXCEPT", 5), J("JUMP_FORWARD", 26), X("END_FINALLY"), X("POP_BLOCK"),
     I("LOAD_CONST", NoneVal, "None", NoneVal),
     XL("LOAD_GLOBAL", 7), X("CALL_FUNCTION"), X("POP_TOP"), X("END_FINALLY"),
     I("LOAD_CONST", NoneVal, "None", NoneVal), X("RETURN_VALUE") >>

\* A hand-assembled code unit: a setup-finally followed by a setup-except whose
\* handler starts with neither DUP_TOP nor POP_TOP.
CodeTEFOther ==
  << JL("SETUP_FINALLY", 14, 2), J("SETUP_EXCEPT", 8), XL("POP_BLOCK", 3),
     J("JUMP_FORWARD", 10), XL("NOP", 4), X("POP_BLOCK"),
     I("LOAD_CONST", NoneVal, "None", NoneVal), XL("END_FINALLY", 6),
     I("LOAD_CONST", NoneVal, "None", NoneVal), X("RETURN_VALUE") >>

\* A hand-assembled code unit whose blocks are not nested: the block of the
\* setup-except ends after the block of the setup-loop around it.
CodeCrossed ==
  << JL("SETUP_LOOP", 6, 2), J("SETUP_EXCEPT", 10), XL("POP_BLOCK", 3), X("POP_BLOCK"),
     X("POP_TOP"), I("LOAD_CONST", NoneVal, "None", NoneVal), X("RETURN_VALUE") >>

Codes ==
  << CodeRet1, CodeIfJoin, CodeForBreak, CodeForLoop, CodeExcAsRet, CodeWith,
     CodeGen, CodeTryFinally, CodeGenFinally, CodeTryRaise, CodeExit, CodeExtArg,
     CodeBreakNoLoop, CodeBreakInTry, CodeTEF, CodeTEFBare, CodeTEFOther, CodeCrossed >>

RawOff(i) == 2 * (i - 1)

Unbound == -11

\* ------------------------------------------------------------------- state
VARIABLES
  code,                \* index in Codes of the code unit under analysis
  pc,                  \* position in calculate_coverage / crawl_code_insts
  err,                 \* the exception that ended the analysis, "" if none
  i,                   \* step 1: index of the raw instruction scanned next
  blocks,              \* step 1: the block stack, a sequence of <<op, dst>>
  prev,                \* step 1: offset of the previous real instruction
  ext,                 \* step 1: index of the first pending EXTENDED_ARG, 0 if none
  exc_match_jmp_dsts,  \* step 1
  dst,                 \* step 1: the local `dst`, Unbound until a setup opcode is seen
  insts,               \* offset -> enhanced instruction
  nexts,               \* offset -> offset of the textually next instruction
  prevs,               \* offset -> offset of the textually previous instruction
  j,                   \* step 2: position in insts.values()
  dsts,                \* offset -> set of successor offsets
  srcs,                \* offset -> set of predecessor offsets
  starts_to_arcs,      \* first offset of an arc -> the arc, a sequence of offsets
  remaining,           \* visit_nodes: the worklist
  visited,             \* visit_nodes: the visited set
  req,                 \* required edges: a set of <<src, dst, line>>
  opt,                 \* optional edges: a set of <<src, dst, line>>
  traced,              \* the traced <<src, dst, line>> triples of the code unit
  todo,                \* the traced triples the matching loop has yet to reach
  matched,             \* matched edges: a set of <<src, dst, line>>
  unexpected,          \* the traced edges reported as UNEXPECTED
  coverage,            \* line -> <<required, matched>>, sets of <<src, dst, code>>
  trace_paths,         \* coalesce: the snapshots to merge, in command-line order
  arg_targets,         \* coalesce: the -targets given
  n_loaded,            \* coalesce: the number of snapshots loaded so far
  target_path_sets,    \* coalesce: target -> set of paths
  target_path_lists,   \* coalesce: target -> sorted list of paths
  path_code_edges,     \* coalesce: path -> code unit -> set of traced triples
  all_codes,           \* calculate_coverage: the code units of the path, in loop order
  n_code,              \* calculate_coverage: position in all_codes of the unit analyzed
  reported,            \* report: the coverage map handed to report_path
  frames,              \* tracer: the activations running, innermost last
  suspended,           \* tracer: f_lasti of the suspended generator frame, NoneVal if none
  code_edges,          \* tracer: code unit -> set of traced <<prev_off, off, line>>
  n_events,            \* tracer: the number of trace events delivered so far
  event,               \* tracer: the kind of the trace event delivered last
  succ,                \* visit_nodes: node -> the nodes the visitor discovers from it
  start_nodes,         \* visit_nodes: the start nodes
  calls                \* visit_nodes: node -> the number of visitor calls made for it

scanVars == << i, blocks, prev, ext, exc_match_jmp_dsts, dst, insts, nexts, prevs >>
graphVars == << j, dsts, srcs, starts_to_arcs, remaining, visited, req, opt >>
covVars == << traced, todo, matched, unexpected, coverage >>
mergeVars == << trace_paths, arg_targets, n_loaded, target_path_sets, target_path_lists,
               path_code_edges >>
reportVars == << all_codes, n_code, reported >>
tracerVars == << frames, suspended, code_edges, n_events, event >>
walkVars == << succ, start_nodes, calls >>
toolVars == << reportVars, tracerVars, walkVars >>
vars == << code, pc, err, scanVars, graphVars, covVars, mergeVars, toolVars >>

\* dict[k] = v
Put(f, k, v) == [x \in (DOMAIN f) \cup {k} |-> IF x = k THEN v ELSE f[x]]

\* Python truthiness of an optional starts_line / offset: None and 0 are falsy.
Truthy(v) == v # NoneVal /\ v # 0

enhance_inst(op, arg, tag, off, line, is_line_start, stack) ==
  [opcode |-> op, argval |-> arg, tag |-> tag, off |-> off, line |-> line,
   is_line_start |-> is_line_start, stack |-> stack,
   is_SF_exc_opt |-> FALSE, is_call_exit |-> FALSE, is_exc_match |-> FALSE,
   is_exc_match_jmp_src |-> FALSE, is_exc_match_jmp_dst |-> FALSE]

begin_inst == enhance_inst(OP_BEGIN, NoneVal, "", OFF_BEGIN, LINE_BEGIN, FALSE, << >>)
raised_inst == enhance_inst(OP_RAISED, NoneVal, "", OFF_RAISED, LINE_RAISED, FALSE, << >>)

EmptyFn == [x \in {} |-> 0]

\* The state on entry to crawl_code_insts for code unit c.
CrawlInit(c) ==
  /\ code = c
  /\ pc = "scan"
  /\ err = ""
  /\ i = 1
  /\ blocks = << >>
  /\ prev = OFF_BEGIN
  /\ ext = 0
  /\ exc_match_jmp_dsts = {}
  /\ dst = Unbound
  /\ insts = (OFF_BEGIN :> begin_inst) @@ (OFF_RAISED :> raised_inst)
  /\ nexts = EmptyFn
  /\ prevs = EmptyFn
  /\ j = 1
  /\ dsts = EmptyFn
  /\ srcs = EmptyFn
  /\ starts_to_arcs = EmptyFn
  /\ remaining = {}
  /\ visited = {}
  /\ req = {}
  /\ opt = {}

CovIdle ==
  /\ traced = {}
  /\ todo = {}
  /\ matched = {}
  /\ unexpected = {}
  /\ coverage = EmptyFn

ReportIdle ==
  /\ all_codes = << >>
  /\ n_code = 0
  /\ reported = EmptyFn

TracerIdle ==
  /\ frames = << >>
  /\ suspended = NoneVal
  /\ code_edges = EmptyFn
  /\ n_events = 0
  /\ event = ""

WalkIdle ==
  /\ succ = EmptyFn
  /\ start_nodes = {}
  /\ calls = EmptyFn

MergeIdle ==
  /\ trace_paths = << >>
  /\ arg_targets = {}
  /\ n_loaded = 0
  /\ target_path_sets = EmptyFn
  /\ target_path_lists = EmptyFn
  /\ path_code_edges = EmptyFn

\* An exception leaves the analysis: nothing after it runs.
Fail(e) ==
  /\ pc' = "failed"
  /\ err' = e
  /\ UNCHANGED << code, scanVars, graphVars, covVars, mergeVars, toolVars >>

\* ------------------------------------------------- step 1: scan instructions
\* A variant of PopBlocks that pops nothing.
PopBlocksNever(bs, off) == bs

\* `while blocks and blocks[-1][1] == off: blocks.pop()`
RECURSIVE PopBlocks(_, _)
PopBlocks(bs, off) ==
  IF Len(bs) > 0 /\ bs[Len(bs)][2] = off
  THEN PopBlocks(SubSeq(bs, 1, Len(bs) - 1), off)
  ELSE bs

IsCallExit(p) ==
  LET q == IF insts[p].opcode = "LOAD_CONST" THEN prevs[p] ELSE p
  IN insts[q].opcode = "LOAD_GLOBAL" /\ insts[q].tag = "exit"

ScanInst ==
  /\ pc = "scan"
  /\ LET raw == Codes[code][i]
         op == raw.opcode
         ext1 == IF op = "EXTENDED_ARG" /\ ext = 0 THEN i ELSE ext
         off == IF ext1 # 0 THEN RawOff(ext1) ELSE RawOff(i)
         starts_line == IF ext1 # 0 THEN Codes[code][ext1].starts_line ELSE raw.starts_line
         line == IF Truthy(starts_line) THEN starts_line ELSE insts[prev].line
         popped == PopBlocks(blocks, off)
         isSetup == op \in setup_opcodes
         blocks1 == IF isSetup THEN Append(popped, << op, raw.argval >>) ELSE popped
         base == enhance_inst(op, raw.argval, raw.tag, off, line, Truthy(starts_line), blocks1)
         inst == [base EXCEPT
                    !.is_call_exit = (op = "CALL_FUNCTION" /\ IsCallExit(prev)),
                    !.is_exc_match = (op = "COMPARE_OP" /\ raw.tag = "exception match"),
                    !.is_exc_match_jmp_src = insts[prev].is_exc_match,
                    !.is_exc_match_jmp_dst =
                       (off \in exc_match_jmp_dsts
                        \/ (insts[prev].is_exc_match /\ off = raw.argval))]
         last == (i = Len(Codes[code]))
     IN IF isSetup /\ \E k \in 1..Len(popped) : raw.argval > popped[k][2]
        THEN Fail("assert all(dst <= d for _, d in blocks)")
        ELSE IF op = "EXTENDED_ARG"
        THEN /\ ext' = ext1
             /\ blocks' = blocks1
             /\ i' = i + 1
             /\ pc' = IF last THEN "dsts" ELSE "scan"
             /\ UNCHANGED << code, err, prev, exc_match_jmp_dsts, dst, insts, nexts,
                             prevs, graphVars, covVars, mergeVars, toolVars >>
        ELSE IF insts[prev].is_exc_match /\ op # "POP_JUMP_IF_FALSE"
        THEN Fail("assert op == POP_JUMP_IF_FALSE")
        ELSE /\ ext' = 0
             /\ blocks' = blocks1
             /\ dst' = IF isSetup THEN raw.argval ELSE dst
             /\ insts' = Put(insts, off, inst)
             /\ nexts' = Put(nexts, prev, off)
             /\ prevs' = Put(prevs, off, prev)
             /\ exc_match_jmp_dsts' =
                  IF insts[prev].is_exc_match
                  THEN exc_match_jmp_dsts \cup {raw.argval}
                  ELSE exc_match_jmp_dsts
             /\ prev' = off
             /\ i' = i + 1
             /\ pc' = IF last THEN "dsts" ELSE "scan"
             /\ UNCHANGED << code, err, graphVars, covVars, mergeVars, toolVars >>

\* --------------------------------------------------- step 2: assemble dsts
\* defaultdict(set) read and add.
Get(f, k) == IF k \in DOMAIN f THEN f[k] ELSE {}
AddTo(f, k, v) == Put(f, k, Get(f, k) \cup {v})

RECURSIVE AddAll(_, _)
AddAll(f, pairs) ==
  IF pairs = {} THEN f
  ELSE LET p == CHOOSE q \in pairs : TRUE
       IN AddAll(AddTo(f, p[1], p[2]), pairs \ {p})

RealOffs == (DOMAIN insts) \ {OFF_BEGIN, OFF_RAISED}

\* The n-th real instruction of insts.values(): offsets were inserted in
\* increasing order, after the two pseudo-instructions.
NthOff(n) == CHOOSE o \in RealOffs : Cardinality({x \in RealOffs : x < o}) = n - 1

RECURSIVE FindBlock(_, _, _)
FindBlock(stack, k, match_ops) ==
  IF k = 0 THEN NoneVal
  ELSE IF stack[k][1] \in match_ops THEN stack[k][2]
  ELSE FindBlock(stack, k - 1, match_ops)

find_block_dst_off(inst, match_ops) == FindBlock(inst.stack, Len(inst.stack), match_ops)

\* A variant of is_SF_exc_opt that does not inspect the handler of the setup-except.
is_SF_exc_opt_any_handler(nxt) == nxt.opcode = "SETUP_EXCEPT"

\* Called only with nxt a SETUP_EXCEPT beyond the first test; the lookup of its
\* handler is part of the caller's KeyError check.
is_SF_exc_opt(nxt) ==
  /\ nxt.opcode = "SETUP_EXCEPT"
  /\ insts[nxt.argval].opcode = "DUP_TOP"

\* A variant of FallsThrough that also takes END_FINALLY never to advance.
FallsThroughEndFinallyStops(inst) ==
  inst.opcode \notin (stop_opcodes \cup {"END_FINALLY"}) /\ ~inst.is_call_exit

\* `op not in stop_opcodes and not inst.is_call_exit`
FallsThrough(inst) ==
  inst.opcode \notin stop_opcodes /\ ~inst.is_call_exit

\* A variant of BeginEdge that adds no edge.
BeginEdgeNone(o) == {}

\* `if inst.off == 0: dsts[_begin_inst].add(inst)`
BeginEdge(o) == IF o = 0 THEN {<< OFF_BEGIN, o >>} ELSE {}

\* What one iteration of the step 2 loop does for the instruction at offset o:
\* the edges it adds to dsts, the exception it raises (if any), and the handler
\* it flags is_SF_exc_opt (if any).
DstsOf(o) ==
  LET inst == insts[o]
      op == inst.opcode
      fall == FallsThrough(inst)
      hasNext == o \in DOMAIN nexts
      target == inst.argval \in RealOffs
      e0 == BeginEdge(o)
      e1 == IF fall /\ hasNext THEN {<< o, nexts[o] >>} ELSE {}
      e2 == IF op \in jump_opcodes /\ target THEN {<< o, inst.argval >>}
            ELSE IF op \in setup_exc_opcodes /\ target THEN {<< OFF_RAISED, inst.argval >>}
            ELSE {}
      err12 == IF fall /\ ~hasNext THEN "KeyError"
               ELSE IF op \in (jump_opcodes \cup setup_exc_opcodes) /\ ~target THEN "KeyError"
               ELSE ""
      loopOff == find_block_dst_off(inst, {"SETUP_LOOP"})
      finOff == find_block_dst_off(inst, {"SETUP_ASYNC_WITH", "SETUP_FINALLY", "SETUP_WITH"})
      excOff == find_block_dst_off(inst, {"SETUP_EXCEPT", "SETUP_FINALLY"})
      e3 == CASE op = "BREAK_LOOP" -> IF loopOff \in RealOffs THEN {<< o, loopOff >>} ELSE {}
              [] op = "END_FINALLY" -> IF Truthy(finOff) THEN {<< o, finOff >>} ELSE {}
              [] op = "RAISE_VARARGS" -> IF Truthy(excOff) THEN {<< OFF_RAISED, excOff >>} ELSE {}
              [] op = "RETURN_VALUE" -> IF Truthy(finOff) THEN {<< o, finOff >>} ELSE {}
              [] op = "YIELD_VALUE" -> IF hasNext THEN {<< OFF_BEGIN, nexts[o] >>} ELSE {}
              [] op = "YIELD_FROM" -> IF hasNext THEN {<< OFF_BEGIN, o >>, << OFF_RAISED, nexts[o] >>}
                                      ELSE {<< OFF_BEGIN, o >>}
              [] OTHER -> {}
      err3 == CASE op = "BREAK_LOOP" ->
                     IF dst = Unbound THEN "UnboundLocalError"
                     ELSE IF ~Truthy(dst) THEN "Exception: BREAK_LOOP stack has no SETUP_LOOP block"
                     ELSE IF loopOff \notin RealOffs THEN "KeyError"
                     ELSE ""
                [] op \in {"YIELD_VALUE", "YIELD_FROM", "SETUP_FINALLY"} ->
                     IF ~hasNext THEN "KeyError"
                     ELSE IF op = "SETUP_FINALLY" /\ insts[nexts[o]].opcode = "SETUP_EXCEPT"
                             /\ insts[nexts[o]].argval \notin RealOffs THEN "KeyError"
                     ELSE ""
                [] OTHER -> ""
      flag == IF op = "SETUP_FINALLY" /\ err12 = "" /\ err3 = "" /\ is_SF_exc_opt(insts[nexts[o]])
              THEN {inst.argval} ELSE {}
  IN [edges |-> e0 \cup e1 \cup e2 \cup e3,
      error |-> IF err12 # "" THEN err12 ELSE err3,
      flagged |-> flag]

AddDsts ==
  /\ pc = "dsts"
  /\ LET o == NthOff(j)
         r == DstsOf(o)
     IN IF r.error # ""
        THEN Fail(r.error)
        ELSE /\ dsts' = AddAll(dsts, r.edges)
             /\ insts' = [x \in DOMAIN insts |->
                            IF x \in r.flagged THEN [insts[x] EXCEPT !.is_SF_exc_opt = TRUE]
                            ELSE insts[x]]
             /\ j' = j + 1
             /\ pc' = IF j = Cardinality(RealOffs) THEN "srcs" ELSE "dsts"
             /\ UNCHANGED << code, err, i, blocks, prev, ext, exc_match_jmp_dsts, dst,
                             nexts, prevs, srcs, starts_to_arcs, remaining, visited,
                             req, opt, covVars, mergeVars, toolVars >>

\* srcs inverts dsts; then visit_nodes(start_nodes = dsts[BEGIN] | dsts[RAISED],
\* visitor = find_arcs) sets up its worklist.
InvertDsts ==
  /\ pc = "srcs"
  /\ srcs' = [n \in UNION {dsts[s] : s \in DOMAIN dsts} |->
                {s \in DOMAIN dsts : n \in dsts[s]}]
  /\ remaining' = Get(dsts, OFF_BEGIN) \cup Get(dsts, OFF_RAISED)
  /\ visited' = {}
  /\ pc' = "arcs"
  /\ UNCHANGED << code, err, scanVars, j, dsts, starts_to_arcs, req, opt, covVars, mergeVars, toolVars >>

\* ------------------------------------------------------ step 3: find arcs
\* The loop of find_arcs from the arc built so far; fuel bounds the walk by the
\* number of instructions, and a walk that uses it all up is reported by
\* returning an arc longer than the code unit.
\* A variant of ArcWalk that extends an arc without looking at the number of
\* predecessors of the next instruction.
RECURSIVE ArcWalkAnySrcs(_, _)
ArcWalkAnySrcs(arc, fuel) ==
  LET dst_set == Get(dsts, arc[Len(arc)])
  IN IF Cardinality(dst_set) # 1 THEN arc
     ELSE LET n == CHOOSE x \in dst_set : TRUE
          IN IF fuel = 0 THEN Append(arc, n)
             ELSE ArcWalkAnySrcs(Append(arc, n), fuel - 1)

RECURSIVE ArcWalk(_, _)
ArcWalk(arc, fuel) ==
  LET dst_set == Get(dsts, arc[Len(arc)])
  IN IF Cardinality(dst_set) # 1 THEN arc
     ELSE LET n == CHOOSE x \in dst_set : TRUE
          IN IF Cardinality(Get(srcs, n)) # 1 THEN arc
             ELSE IF fuel = 0 THEN Append(arc, n)
             ELSE ArcWalk(Append(arc, n), fuel - 1)

find_arcs(inst) == ArcWalk(<< inst >>, Cardinality(RealOffs))

\* One iteration of visit_nodes with visitor find_arcs.
VisitArc ==
  /\ pc = "arcs"
  /\ \E node \in remaining :
       LET a == find_arcs(node)
           dst_set == Get(dsts, a[Len(a)])
       IN IF node \in visited
          THEN Fail("assert node not in visited")
          ELSE IF a[1] \in DOMAIN starts_to_arcs
          THEN Fail("assert a[0] not in starts_to_arcs")
          ELSE IF Len(a) > Cardinality(RealOffs)
          THEN Fail("find_arcs does not return")
          ELSE /\ visited' = visited \cup {node}
               /\ starts_to_arcs' = Put(starts_to_arcs, a[1], a)
               /\ remaining' = (remaining \ {node}) \cup {n \in dst_set : n \notin visited'}
               /\ UNCHANGED << code, pc, err, scanVars, j, dsts, srcs, req, opt, covVars, mergeVars, toolVars >>

\* visit_nodes returns; visit_nodes(start_nodes = the BEGIN and RAISED triples,
\* visitor = emit_edges) sets up its worklist.
ArcsDone ==
  /\ pc = "arcs"
  /\ remaining = {}
  /\ remaining' = {<< OFF_BEGIN, LINE_BEGIN, FALSE >>, << OFF_RAISED, LINE_RAISED, FALSE >>}
  /\ visited' = {}
  /\ pc' = "emit"
  /\ UNCHANGED << code, err, scanVars, j, dsts, srcs, starts_to_arcs, req, opt, covVars, mergeVars, toolVars >>

\* ------------------------------------------------ edge classifier (is_arc_opt)
\* An expected instruction: << opcode, TRUE >> is the tuple (opcode, None) of the
\* source, which also requires argval None; << opcode, FALSE >> is a bare opcode.
match_inst(inst, exp) ==
  /\ inst.opcode = exp[1]
  /\ exp[2] => inst.tag = "None"

match_insts(arc, exps) ==
  /\ Len(arc) >= Len(exps)
  /\ \A k \in 1..Len(exps) : match_inst(insts[arc[k]], exps[k])

is_arc_opt_SF_raise(src, arc) ==
  src = OFF_RAISED /\ insts[arc[1]].is_SF_exc_opt

is_arc_unhandled_exc_reraise(src, arc) ==
  \/ insts[src].is_exc_match_jmp_src /\ insts[arc[1]].is_exc_match_jmp_dst
  \/ insts[src].is_exc_match_jmp_dst

is_arc_exc_as_cleanup(src, arc) ==
  /\ src = OFF_RAISED
  /\ match_insts(arc, << << "LOAD_CONST", TRUE >>, << "STORE_FAST", FALSE >>,
                         << "DELETE_FAST", FALSE >>, << "END_FINALLY", FALSE >> >>)

is_arc_with_cleanup(arc) ==
  match_insts(arc, << << "WITH_CLEANUP_START", FALSE >>, << "WITH_CLEANUP_FINISH", FALSE >>,
                      << "END_FINALLY", FALSE >> >>)

is_arc_join_return_none(arc) ==
  /\ Len(arc) = 2
  /\ Cardinality(Get(srcs, arc[1])) > 1
  /\ match_insts(arc, << << "LOAD_CONST", TRUE >>, << "RETURN_VALUE", FALSE >> >>)

is_arc_opt(src, arc) ==
  \/ is_arc_opt_SF_raise(src, arc)
  \/ is_arc_unhandled_exc_reraise(src, arc)
  \/ is_arc_exc_as_cleanup(src, arc)
  \/ is_arc_with_cleanup(arc)
  \/ is_arc_join_return_none(arc)

\* A variant of next_line without the clause for exception and resume edges.
next_line_lnotab_only(inst, nxt, line) ==
  IF nxt.is_line_start \/ nxt.off < inst.off THEN nxt.line ELSE line

next_line(inst, nxt, line) ==
  IF nxt.is_line_start \/ nxt.off < inst.off \/ line < 0 THEN nxt.line ELSE line

\* ------------------------------------------------------ step 4: emit edges
\* A variant of EdgeSrcOff that keeps the offset of every source.
EdgeSrcOffReal(src, p, inst) == p

\* The source offset of the edge p -> inst of the arc entered from src: the
\* step from a FOR_ITER to its jump target is emitted as an exception edge.
EdgeSrcOff(src, p, inst) ==
  IF src = p /\ insts[src].opcode = "FOR_ITER" /\ insts[src].argval = inst
  THEN OFF_RAISED ELSE p

\* A variant of IsEndFinallyStep that never holds.
IsEndFinallyStepNever(p, inst) == FALSE

\* `prev.opcode == END_FINALLY and nexts[prev] == inst`
IsEndFinallyStep(p, inst) ==
  insts[p].opcode = "END_FINALLY" /\ p \in DOMAIN nexts /\ nexts[p] = inst

\* A variant of ArcStartsOpt that lets an arc inherit the optional status of
\* the arc it is entered from.
ArcStartsOptInherited(triple, arc) == is_arc_opt(triple[1], arc) \/ triple[3]

\* is_opt at the start of the inner loop: `is_opt = is_arc_opt(src, arc, srcs, dsts)`
ArcStartsOpt(triple, arc) == is_arc_opt(triple[1], arc)

\* The inner loop of emit_edges over one arc, from its k-th instruction on.
\* adds collects the add_edge calls as << src, dst, line, is_opt >>; error names
\* the exception raised: `assert line > 0` failing, or nexts[prev] missing.
RECURSIVE EmitArc(_, _, _, _, _, _, _)
EmitArc(src, is_src_opt, arc, k, prev_line, is_opt, adds) ==
  IF k > Len(arc)
  THEN [adds |-> adds, line |-> prev_line, is_opt |-> is_opt, error |-> ""]
  ELSE LET p == IF k = 1 THEN src ELSE arc[k - 1]
           inst == arc[k]
           line == next_line(insts[p], insts[inst], prev_line)
           prev_off == EdgeSrcOff(src, p, inst)
           ef == insts[p].opcode = "END_FINALLY"
           is_opt1 == is_opt \/ IsEndFinallyStep(p, inst)
           add == << prev_off, inst, line, is_opt1 \/ (is_src_opt /\ src = p) >>
       IN IF ~(line > 0)
          THEN [adds |-> adds, line |-> line, is_opt |-> is_opt, error |-> "AssertionError"]
          ELSE IF ~is_opt /\ ef /\ p \notin DOMAIN nexts
          THEN [adds |-> adds, line |-> line, is_opt |-> is_opt, error |-> "KeyError"]
          ELSE EmitArc(src, is_src_opt, arc, k + 1, line, is_opt1, adds \cup {add})

\* emit_edges(triple) for one start: the arc entered from src.
EmitStart(triple, start) ==
  LET arc == starts_to_arcs[start]
  IN EmitArc(triple[1], triple[3], arc, 1, triple[2], ArcStartsOpt(triple, arc), {})

\* One iteration of visit_nodes with visitor emit_edges.
EmitEdges ==
  /\ pc = "emit"
  /\ \E triple \in remaining :
       LET starts == Get(dsts, triple[1])
           rs == [st \in starts \cap DOMAIN starts_to_arcs |-> EmitStart(triple, st)]
           adds == UNION {rs[st].adds : st \in DOMAIN rs}
           discovered == {<< starts_to_arcs[st][Len(starts_to_arcs[st])], rs[st].line, rs[st].is_opt >> :
                            st \in DOMAIN rs}
       IN IF triple \in visited THEN Fail("assert node not in visited")
          ELSE IF \E st \in starts : st \notin DOMAIN starts_to_arcs THEN Fail("KeyError")
          ELSE IF \E st \in DOMAIN rs : rs[st].error = "AssertionError" THEN Fail("assert line > 0")
          ELSE IF \E st \in DOMAIN rs : rs[st].error # "" THEN Fail("KeyError")
          ELSE /\ visited' = visited \cup {triple}
               /\ req' = req \cup {<< a[1], a[2], a[3] >> : a \in {b \in adds : ~b[4]}}
               /\ opt' = opt \cup {<< a[1], a[2], a[3] >> : a \in {b \in adds : b[4]}}
               /\ remaining' = (remaining \ {triple}) \cup {n \in discovered : n \notin visited'}
               /\ UNCHANGED << code, pc, err, scanVars, j, dsts, srcs, starts_to_arcs, covVars, mergeVars, toolVars >>

\* ------------------------------------------- calculate_coverage: the matching
Keys(m) == {<< t[1], t[2] >> : t \in m}
LinesOf(m, e) == {t[3] : t \in {u \in m : u[1] = e[1] /\ u[2] = e[2]}}

raise_reqs == {e[2] : e \in {f \in Keys(req) : f[1] = OFF_RAISED}}
raise_opts == {e[2] : e \in {f \in Keys(opt) : f[1] = OFF_RAISED}}

\* A variant of Classify that does not consult raise_opts.
ClassifyWithoutRaiseOpts(t) ==
  LET edge == << t[1], t[2] >>
  IN IF edge \in Keys(req) THEN "direct"
     ELSE IF t[2] \in raise_reqs THEN "rewrite"
     ELSE IF ~(edge \in Keys(opt)) THEN "unexpected"
     ELSE "ignored"

\* The branch of the matching loop a traced triple takes.
Classify(t) ==
  LET edge == << t[1], t[2] >>
  IN IF edge \in Keys(req) THEN "direct"
     ELSE IF t[2] \in raise_reqs THEN "rewrite"
     ELSE IF ~(edge \in Keys(opt) \/ t[2] \in raise_opts) THEN "unexpected"
     ELSE "ignored"

\* A variant of MatchOf that attributes a rewritten raise edge to the observed line.
MatchOfObservedLine(t) ==
  CASE Classify(t) = "direct" -> {t}
    [] Classify(t) = "rewrite" -> {<< OFF_RAISED, t[2], t[3] >>}
    [] OTHER -> {}

\* A variant of MatchOf that also records the edges it reports as unexpected.
MatchOfRecordsUnexpected(t) ==
  CASE Classify(t) = "direct" -> {t}
    [] Classify(t) = "rewrite" ->
         {<< OFF_RAISED, t[2], l >> : l \in LinesOf(req, << OFF_RAISED, t[2] >>)}
    [] Classify(t) = "unexpected" -> {t}
    [] OTHER -> {}

\* The entries one iteration of the matching loop adds to matched.
MatchOf(t) ==
  CASE Classify(t) = "direct" -> {t}
    [] Classify(t) = "rewrite" ->
         {<< OFF_RAISED, t[2], l >> : l \in LinesOf(req, << OFF_RAISED, t[2] >>)}
    [] OTHER -> {}

ReportOf(t) == IF Classify(t) = "unexpected" THEN {<< t[1], t[2] >>} ELSE {}

\* A variant of MatchStep that assigns the edge's lines instead of adding to them.
MatchStepAssign(m, t) ==
  {u \in m : << u[1], u[2] >> \notin Keys(MatchOf(t))} \cup MatchOf(t)

\* matched after the iteration for t: matched[edge].add / .update.
MatchStep(m, t) == m \cup MatchOf(t)

\* ----------------------------------------------------- the traced triples
MaxTraced == 2

RECURSIVE SubsetsUpTo(_, _)
SubsetsUpTo(S, k) ==
  IF k = 0 THEN {{}}
  ELSE LET smaller == SubsetsUpTo(S, k - 1)
       IN smaller \cup {T \cup {x} : T \in smaller, x \in S}

\* The transitions a trace of the code unit is drawn from: the transitions of
\* the graph, the transfer from an instruction inside a try/with block to the
\* block's handler (a raise, traced with the raising instruction as prev_off),
\* and the step to the textually next instruction (a call of `exit` that
\* returns, an edge the analyzer does not know).  frame.f_lineno at the
\* destination is the destination's line or the line carried from the source.
TracedEdges ==
  {e \in (DOMAIN dsts) \X RealOffs : e[2] \in dsts[e[1]]}
  \cup {e \in RealOffs \X RealOffs :
          \E k \in 1..Len(insts[e[1]].stack) :
             /\ insts[e[1]].stack[k][1] \in setup_exc_opcodes
             /\ insts[e[1]].stack[k][2] = e[2]}
  \cup {<< s, nexts[s] >> : s \in RealOffs \cap DOMAIN nexts}

TracedTriples ==
  {<< e[1], e[2], insts[e[2]].line >> : e \in TracedEdges}
  \cup {<< e[1], e[2], insts[e[1]].line >> : e \in {f \in TracedEdges : f[1] \in RealOffs}}

\* crawl_code_insts returns req and opt; the matching loop starts on
\* traced = code_edges.get(code, {}).  The traced set is an input that nothing
\* before this point reads, so it is drawn here.
BeginMatch ==
  /\ pc = "emit"
  /\ remaining = {}
  /\ \E T \in SubsetsUpTo(TracedTriples, MaxTraced) :
       /\ traced' = T
       /\ todo' = T
  /\ matched' = {}
  /\ unexpected' = {}
  /\ pc' = "match"
  /\ UNCHANGED << code, err, scanVars, graphVars, coverage, mergeVars, toolVars >>

\* One iteration of `for src, dst, line in traced` (a set: any order).
Match ==
  /\ pc = "match"
  /\ \E t \in todo :
       /\ matched' = MatchStep(matched, t)
       /\ unexpected' = unexpected \cup ReportOf(t)
       /\ todo' = todo \ {t}
  /\ UNCHANGED << code, pc, err, scanVars, graphVars, traced, coverage, mergeVars, toolVars >>

\* add_edges(req, code, COV_REQ); add_edges(matched, code, COV_MATCHED).
CoverageOf(r, m) ==
  [line \in {t[3] : t \in r \cup m} |->
     << {<< t[1], t[2], code >> : t \in {u \in r : u[3] = line}},
        {<< t[1], t[2], code >> : t \in {u \in m : u[3] = line}} >>]

\* coverage is one defaultdict for all the code units of a path: the entries of
\* a unit are added to those of the units before it.
AddCoverage(cov, new) ==
  [line \in (DOMAIN cov) \cup (DOMAIN new) |->
     << (IF line \in DOMAIN cov THEN cov[line][1] ELSE {})
          \cup (IF line \in DOMAIN new THEN new[line][1] ELSE {}),
        (IF line \in DOMAIN cov THEN cov[line][2] ELSE {})
          \cup (IF line \in DOMAIN new THEN new[line][2] ELSE {}) >>]

AddEdges ==
  /\ pc = "match"
  /\ todo = {}
  /\ IF \E t \in req \cup matched : ~(t[3] > 0)
     THEN Fail("assert line > 0")
     ELSE /\ coverage' = AddCoverage(coverage, CoverageOf(req, matched))
          /\ pc' = "done"
          /\ UNCHANGED << code, err, scanVars, graphVars, traced, todo, matched, unexpected,
                          mergeVars, toolVars >>

\* ------------------------------------------------------------ specification
Init ==
  /\ \E c \in 1..Len(Codes) : CrawlInit(c)
  /\ CovIdle /\ MergeIdle /\ ReportIdle /\ TracerIdle /\ WalkIdle

Next ==
  \/ ScanInst
  \/ AddDsts
  \/ InvertDsts
  \/ VisitArc
  \/ ArcsDone
  \/ EmitEdges
  \/ BeginMatch
  \/ Match
  \/ AddEdges

Spec == Init /\ [][Next]_vars

RECURSIVE SeqsUpTo(_, _)
SeqsUpTo(S, n) ==
  IF n = 0 THEN {<< >>}
  ELSE LET shorter == SeqsUpTo(S, n - 1)
       IN shorter \cup {Append(q, x) : q \in shorter, x \in S}

CrawlIdle ==
  /\ code = 1
  /\ i = 1
  /\ blocks = << >>
  /\ prev = OFF_BEGIN
  /\ ext = 0
  /\ exc_match_jmp_dsts = {}
  /\ dst = Unbound
  /\ insts = (OFF_BEGIN :> begin_inst) @@ (OFF_RAISED :> raised_inst)
  /\ nexts = EmptyFn
  /\ prevs = EmptyFn
  /\ j = 1
  /\ dsts = EmptyFn
  /\ srcs = EmptyFn
  /\ starts_to_arcs = EmptyFn
  /\ remaining = {}
  /\ visited = {}
  /\ req = {}
  /\ opt = {}

\* -------------------------------------------- report: the units of one path
\* The code units a path is tried with, as positions in Codes: CodeRet1,
\* CodeExtArg and CodeBreakNoLoop.  all_codes lists distinct code objects, in
\* the order the set of visited nodes happens to iterate.
ReportUnits == {1, 12, 13}

MaxUnits == 2

UnitLists ==
  {q \in SeqsUpTo(ReportUnits, MaxUnits) :
     Len(q) > 0 /\ \A a, b \in 1..Len(q) : a # b => q[a] # q[b]}

\* `for code in all_codes`: the next iteration starts on a fresh crawl_code_insts.
NextCode ==
  /\ pc = "done"
  /\ n_code < Len(all_codes)
  /\ n_code' = n_code + 1
  /\ code' = all_codes[n_code + 1]
  /\ pc' = "scan"
  /\ i' = 1
  /\ blocks' = << >>
  /\ prev' = OFF_BEGIN
  /\ ext' = 0
  /\ exc_match_jmp_dsts' = {}
  /\ dst' = Unbound
  /\ insts' = (OFF_BEGIN :> begin_inst) @@ (OFF_RAISED :> raised_inst)
  /\ nexts' = EmptyFn
  /\ prevs' = EmptyFn
  /\ j' = 1
  /\ dsts' = EmptyFn
  /\ srcs' = EmptyFn
  /\ starts_to_arcs' = EmptyFn
  /\ remaining' = {}
  /\ visited' = {}
  /\ req' = {}
  /\ opt' = {}
  /\ UNCHANGED << err, covVars, mergeVars, all_codes, reported, tracerVars, walkVars >>

\* calculate_coverage returns; report hands the map to report_path.
ReturnCoverage ==
  /\ pc = "done"
  /\ n_code = Len(all_codes)
  /\ reported' = coverage
  /\ pc' = "returned"
  /\ UNCHANGED << code, err, scanVars, graphVars, covVars, mergeVars, all_codes, n_code,
                  tracerVars, walkVars >>

InitReport ==
  /\ all_codes \in UnitLists
  /\ n_code = 1
  /\ reported = EmptyFn
  /\ CrawlInit(all_codes[1])
  /\ CovIdle /\ MergeIdle /\ TracerIdle /\ WalkIdle

NextReport ==
  \/ ScanInst
  \/ AddDsts
  \/ InvertDsts
  \/ VisitArc
  \/ ArcsDone
  \/ EmitEdges
  \/ BeginMatch
  \/ Match
  \/ AddEdges
  \/ NextCode
  \/ ReturnCoverage

SpecReport == InitReport /\ [][NextReport]_vars

\* ------------------------------------------------ install_trace: the tracers
\* The code units the traced program runs: a function and a generator of a
\* targeted module, and a function of a module that is not a target.
TraceCodes == {"f", "gen", "lib"}
is_code_targeted(c) == c \in {"f", "gen"}

\* frame.f_lasti of the instructions executed, and frame.f_lineno there.
TraceOffs == {0, 2, 4}
LineAt(off) == 1 + (off \div 4)
\* The instruction executed after the one at f_lasti: the next one, or the
\* first one again (a backward jump).  f_lasti is -1 in a frame not yet started.
NextOffs(lasti) ==
  IF lasti = -1 THEN {0}
  ELSE ({lasti + 2} \cap TraceOffs) \cup (IF lasti >= 2 THEN {0} ELSE {})

MaxEvents == 8
MaxDepth == 2

\* A variant of NewTracerPrevOff that lets a resumed frame continue where it was.
NewTracerPrevOffLasti(lasti) == lasti

\* `prev_off = OFF_BEGIN` of the closure coven_global_tracer makes for a call.
NewTracerPrevOff(lasti) == OFF_BEGIN

\* An activation: the frame's code and f_lasti, whether coven_global_tracer
\* returned a local tracer for it, that tracer's prev_off, and (history) the
\* triples the tracer recorded and the number of 'opcode' events it was given.
Activation(c, lasti) ==
  [code |-> c, lasti |-> lasti, tracer |-> is_code_targeted(c),
   prev_off |-> NewTracerPrevOff(lasti), rec |-> << >>, n_opcode |-> 0]

Top == frames[Len(frames)]
SetTop(a) == [frames EXCEPT ![Len(frames)] = a]
Pop == SubSeq(frames, 1, Len(frames) - 1)

\* A 'call' event: coven_global_tracer(g_frame, 'call', None) for a new frame.
Call ==
  /\ pc = "trace"
  /\ n_events < MaxEvents
  /\ Len(frames) < MaxDepth
  /\ \E c \in TraceCodes : frames' = Append(frames, Activation(c, -1))
  /\ event' = "call"
  /\ n_events' = n_events + 1
  /\ UNCHANGED << code, err, pc, scanVars, graphVars, covVars, mergeVars, reportVars,
                  suspended, code_edges, walkVars >>

\* A 'call' event for the frame of a generator that is resumed.
Resume ==
  /\ pc = "trace"
  /\ n_events < MaxEvents
  /\ Len(frames) < MaxDepth
  /\ suspended # NoneVal
  /\ frames' = Append(frames, Activation("gen", suspended))
  /\ suspended' = NoneVal
  /\ event' = "call"
  /\ n_events' = n_events + 1
  /\ UNCHANGED << code, err, pc, scanVars, graphVars, covVars, mergeVars, reportVars,
                  code_edges, walkVars >>

\* The innermost frame executes an instruction; if it has a local tracer and
\* f_trace_opcodes is set, coven_local_tracer(frame, 'opcode', None) runs.
Opcode ==
  /\ pc = "trace"
  /\ n_events < MaxEvents
  /\ frames # << >>
  /\ \E off \in NextOffs(Top.lasti) :
       LET a == Top
           triple == << a.prev_off, off, LineAt(off) >>
       IN IF a.tracer
          THEN /\ code_edges' = Put(code_edges, a.code, Get(code_edges, a.code) \cup {triple})
               /\ frames' = SetTop([a EXCEPT !.lasti = off, !.prev_off = off,
                                              !.rec = Append(a.rec, triple),
                                              !.n_opcode = a.n_opcode + 1])
               /\ event' = "opcode"
               /\ n_events' = n_events + 1
          ELSE /\ frames' = SetTop([a EXCEPT !.lasti = off])
               /\ UNCHANGED << code_edges, event, n_events >>
  /\ UNCHANGED << code, err, pc, scanVars, graphVars, covVars, mergeVars, reportVars,
                  suspended, walkVars >>

\* coven_local_tracer(frame, 'exception', arg) or (frame, 'line', None): the
\* tracer returns itself and does nothing else.
OtherEvent ==
  /\ pc = "trace"
  /\ n_events < MaxEvents
  /\ frames # << >>
  /\ Top.tracer
  /\ event' \in {"exception", "line"}
  /\ n_events' = n_events + 1
  /\ UNCHANGED << code, err, pc, scanVars, graphVars, covVars, mergeVars, reportVars,
                  frames, suspended, code_edges, walkVars >>

\* The innermost frame returns, or (a generator) yields: a 'return' event for
\* its local tracer, if it has one, and the activation ends.
Return ==
  /\ pc = "trace"
  /\ n_events < MaxEvents
  /\ frames # << >>
  /\ Top.lasti # -1
  /\ \/ UNCHANGED suspended
     \/ Top.code = "gen" /\ suspended = NoneVal /\ suspended' = Top.lasti
  /\ frames' = Pop
  /\ IF Top.tracer
     THEN event' = "return" /\ n_events' = n_events + 1
     ELSE UNCHANGED << event, n_events >>
  /\ UNCHANGED << code, err, pc, scanVars, graphVars, covVars, mergeVars, reportVars,
                  code_edges, walkVars >>

InitTrace ==
  /\ pc = "trace"
  /\ err = ""
  /\ CrawlIdle /\ CovIdle /\ MergeIdle /\ ReportIdle /\ TracerIdle /\ WalkIdle

NextTrace ==
  \/ Call
  \/ Resume
  \/ Opcode
  \/ OtherEvent
  \/ Return

SpecTrace == InitTrace /\ [][NextTrace]_vars

\* --------------------------------------------- visit_nodes on its own graphs
\* The nodes of the graphs visit_nodes is tried on, and the most nodes a
\* visitor discovers from one node.
WalkNodes == {1, 2, 3}

MaxOut == 2

WalkGraphs == [WalkNodes -> {S \in SUBSET WalkNodes : Cardinality(S) <= MaxOut}]

\* A variant of Discovered that does not leave out the visited nodes.
DiscoveredUnfiltered(node, vis) == succ[node]

\* `n for n in discovered if n not in visited`
Discovered(node, vis) == {n \in succ[node] : n \notin vis}

CallsOf(n) == IF n \in DOMAIN calls THEN calls[n] ELSE 0

\* One iteration of `while remaining`.
VisitNode ==
  /\ pc = "walk"
  /\ \E node \in remaining :
       IF node \in visited
       THEN Fail("assert node not in visited")
       ELSE /\ visited' = visited \cup {node}
            /\ calls' = Put(calls, node, CallsOf(node) + 1)
            /\ remaining' = (remaining \ {node}) \cup Discovered(node, visited')
            /\ UNCHANGED << code, pc, err, scanVars, j, dsts, srcs, starts_to_arcs, req, opt,
                            covVars, mergeVars, reportVars, tracerVars, succ, start_nodes >>

\* `return visited`
WalkReturn ==
  /\ pc = "walk"
  /\ remaining = {}
  /\ pc' = "walked"
  /\ UNCHANGED << code, err, scanVars, graphVars, covVars, mergeVars, toolVars >>

InitVisit ==
  /\ pc = "walk"
  /\ err = ""
  /\ succ \in WalkGraphs
  /\ start_nodes \in SUBSET WalkNodes
  /\ calls = EmptyFn
  /\ code = 1
  /\ i = 1
  /\ blocks = << >>
  /\ prev = OFF_BEGIN
  /\ ext = 0
  /\ exc_match_jmp_dsts = {}
  /\ dst = Unbound
  /\ insts = (OFF_BEGIN :> begin_inst) @@ (OFF_RAISED :> raised_inst)
  /\ nexts = EmptyFn
  /\ prevs = EmptyFn
  /\ j = 1
  /\ dsts = EmptyFn
  /\ srcs = EmptyFn
  /\ starts_to_arcs = EmptyFn
  /\ remaining = start_nodes
  /\ visited = {}
  /\ req = {}
  /\ opt = {}
  /\ CovIdle /\ MergeIdle /\ ReportIdle /\ TracerIdle

NextVisit ==
  \/ VisitNode
  \/ WalkReturn

\* The loop runs on: nothing but the empty worklist stops it.
SpecVisit == InitVisit /\ [][NextVisit]_vars /\ WF_vars(NextVisit)

\* ------------------------------------------------------------------ coalesce
\* A snapshot as write_coverage stores it.  Paths are numbered in the order of
\* the path strings: 1 is /a/lib.py, 2 is /a/main.py, 3 is /b/main.py.  A
\* target never imported has path NoneVal.  Code units are named; marshal loads
\* equal code objects from different files as equal dict keys.
Snapshot(tp, pce) == [target_paths |-> tp, path_code_edges |-> pce]

Snap1 ==
  Snapshot(("__main__" :> 2) @@ ("lib" :> NoneVal),
           (2 :> ("main" :> {<< -1, 0, 1 >>, << 0, 2, 1 >>})))

Snap2 ==
  Snapshot(("__main__" :> 3) @@ ("lib" :> 1),
           (3 :> ("main" :> {<< -1, 0, 1 >>})) @@ (1 :> ("f" :> {<< -1, 0, 2 >>})))

Snap3 ==
  Snapshot(("__main__" :> 2) @@ ("lib" :> 1),
           (2 :> (("main" :> {<< 0, 2, 1 >>, << 2, 4, 2 >>}) @@ ("g" :> {<< -1, 0, 5 >>})))
           @@ (1 :> ("f" :> {<< -1, 0, 2 >>, << 0, 2, 2 >>})))

Snapshots == << Snap1, Snap2, Snap3 >>

MaxSnaps == 3

\* The -targets sets tried (expand_targets: a set of module names).
TargetSets == {{}, {"__main__"}, {"lib"}, {"__main__", "lib"}, {"other"}}

\* sorted(paths)
RECURSIVE sorted(_)
sorted(S) ==
  IF S = {} THEN << >>
  ELSE LET m == CHOOSE x \in S : \A y \in S : x <= y
       IN << m >> \o sorted(S \ {m})

\* A variant of MergeEdges that assigns the snapshot's edges.
MergeEdgesAssign(old, new) == new

\* path_code_edges[path][code].update(edges)
MergeEdges(old, new) == old \cup new

\* The loop over data['target_paths'].items() of one snapshot.
MergeTargets(sets, tp) ==
  LET kept == {t \in DOMAIN tp : arg_targets = {} \/ t \in arg_targets}
  IN [t \in (DOMAIN sets) \cup kept |->
        Get(sets, t) \cup (IF t \in kept /\ tp[t] # NoneVal THEN {tp[t]} ELSE {})]

\* The loop over data['path_code_edges'].items() of one snapshot.
MergePaths(merged, pce) ==
  [p \in (DOMAIN merged) \cup (DOMAIN pce) |->
     LET old == IF p \in DOMAIN merged THEN merged[p] ELSE EmptyFn
         new == IF p \in DOMAIN pce THEN pce[p] ELSE EmptyFn
     IN [c \in (DOMAIN old) \cup (DOMAIN new) |->
           IF c \in DOMAIN new THEN MergeEdges(Get(old, c), new[c]) ELSE old[c]]]

\* The state of coalesce before its loop.  A trace path 0 names no file.
CoalesceInit ==
  /\ pc = "coalesce"
  /\ err = ""
  /\ trace_paths \in SeqsUpTo(0..Len(Snapshots), MaxSnaps) \ {<< >>}
  /\ arg_targets \in TargetSets
  /\ n_loaded = 0
  /\ target_path_sets = [t \in arg_targets |-> {}]
  /\ target_path_lists = EmptyFn
  /\ path_code_edges = EmptyFn

\* One iteration of `for trace_path in trace_paths`.
LoadSnapshot ==
  /\ pc = "coalesce"
  /\ n_loaded < Len(trace_paths)
  /\ IF trace_paths[n_loaded + 1] = 0
     THEN /\ pc' = "failed"
          /\ err' = "exit: trace file not found"
          /\ UNCHANGED << code, scanVars, graphVars, covVars, mergeVars, toolVars >>
     ELSE LET data == Snapshots[trace_paths[n_loaded + 1]]
              sets == MergeTargets(target_path_sets, data.target_paths)
          IN /\ target_path_sets' = sets
             /\ target_path_lists' = [t \in DOMAIN sets |-> sorted(sets[t])]
             /\ path_code_edges' = MergePaths(path_code_edges, data.path_code_edges)
             /\ n_loaded' = n_loaded + 1
             /\ UNCHANGED << code, pc, err, scanVars, graphVars, covVars, trace_paths,
                             arg_targets, toolVars >>

\* The loop is over: report(target_path_lists, path_code_edges) is called.
Report ==
  /\ pc = "coalesce"
  /\ n_loaded = Len(trace_paths)
  /\ pc' = "reported"
  /\ UNCHANGED << code, err, scanVars, graphVars, covVars, mergeVars, toolVars >>

InitCoalesce ==
  CoalesceInit /\ CrawlIdle /\ CovIdle /\ ReportIdle /\ TracerIdle /\ WalkIdle

NextCoalesce ==
  \/ LoadSnapshot
  \/ Report

SpecCoalesce == InitCoalesce /\ [][NextCoalesce]_vars

\* ==================================================================== claims
Processed == traced \ todo
Matching == pc \in {"match", "done"}
RaisedEdge(d) == << OFF_RAISED, d >>

\* C1 (as claimed): the required and the optional edges of a code unit are
\* disjoint: no edge is a key of both req and opt.
ReqOptDisjoint == Keys(req) \cap Keys(opt) = {}

\* C2 (as claimed): in the coverage map returned by calculate_coverage the
\* matched edges of every line are a subset of the required edges of that line.
MatchedSubsetRequired ==
  pc = "done" =>
    \A line \in DOMAIN coverage : coverage[line][COV_MATCHED] \subseteq coverage[line][COV_REQ]

\* C3 (as claimed): a traced edge (s, d) is reported as unexpected exactly when
\* (s, d) is neither required nor optional and no required edge (RAISED, d) exists.
UnexpectedIffNotInferred ==
  Matching =>
    \A t \in Processed :
      << t[1], t[2] >> \in unexpected <=>
        /\ << t[1], t[2] >> \notin Keys(req) \cup Keys(opt)
        /\ RaisedEdge(t[2]) \notin Keys(req)

\* C3 (amended): a traced edge (s, d) is reported as unexpected exactly when
\* (s, d) is neither required nor optional and neither a required nor an
\* optional edge (RAISED, d) exists; nothing else is reported.
UnexpectedIffNoRaisedEdge ==
  Matching =>
    /\ \A t \in Processed :
         << t[1], t[2] >> \in unexpected <=>
           /\ << t[1], t[2] >> \notin Keys(req) \cup Keys(opt)
           /\ RaisedEdge(t[2]) \notin Keys(req) \cup Keys(opt)
    /\ unexpected \subseteq Keys(Processed)

\* C3 witness: a finished matching that reported one traced edge and not the other.
UnexpectedReported ==
  /\ pc = "done"
  /\ Cardinality(Keys(traced)) = 2
  /\ Cardinality(unexpected) = 1

\* The traced triple an iteration of the matching loop consumed.
Consumed == CHOOSE t \in todo : t \notin todo'

\* C4: an iteration for a traced (s, d, line) with (s, d) not required and
\* (RAISED, d) required adds to matched exactly (RAISED, d) on the lines inferred
\* for that required edge, whatever the observed line; an iteration with (s, d)
\* required adds exactly (s, d) on the observed line.
RaiseRewrite ==
  [][(pc = "match" /\ todo' # todo) =>
       LET t == Consumed
           edge == << t[1], t[2] >>
       IN /\ (edge \notin Keys(req) /\ RaisedEdge(t[2]) \in Keys(req)) =>
               matched' = matched \cup {r \in req : r[1] = OFF_RAISED /\ r[2] = t[2]}
          /\ edge \in Keys(req) => matched' = matched \cup {t}]_vars

\* C4 witness: a reraise-shaped triple was rewritten although it was observed on
\* a line that is not among the lines inferred for (RAISED, d).
RewrittenOffLine ==
  /\ Matching
  /\ \E t \in Processed :
       /\ << t[1], t[2] >> \notin Keys(req)
       /\ RaisedEdge(t[2]) \in Keys(req)
       /\ t[3] \notin LinesOf(req, RaisedEdge(t[2]))
       /\ LinesOf(matched, RaisedEdge(t[2])) = LinesOf(req, RaisedEdge(t[2]))

\* C5: an iteration for a traced triple that is neither matched directly nor
\* rewritten (it is unexpected, or optional and ignored) leaves matched, req and
\* opt as they were, and the coverage map is assembled from req and matched alone.
UnexpectedIsDiagnosticOnly ==
  [][/\ (pc = "match" /\ todo' # todo) =>
          LET t == Consumed
          IN (<< t[1], t[2] >> \notin Keys(req) /\ RaisedEdge(t[2]) \notin Keys(req)) =>
               (matched' = matched /\ req' = req /\ opt' = opt)
     /\ (pc = "match" /\ pc' = "done") =>
          /\ DOMAIN coverage' = {u[3] : u \in req \cup matched}
          /\ \A line \in DOMAIN coverage' :
               /\ coverage'[line][COV_REQ] = {<< u[1], u[2], code >> : u \in {v \in req : v[3] = line}}
               /\ coverage'[line][COV_MATCHED] =
                    {<< u[1], u[2], code >> : u \in {v \in matched : v[3] = line}}]_vars

\* C5 witness: a coverage map with a matched edge, from a trace with an
\* unexpected edge.
CoverageWithUnexpected ==
  /\ pc = "done"
  /\ unexpected # {}
  /\ matched # {}

\* What the triples of T contribute to matched, in whatever order.
MatchedBy(T) ==
  {t \in T : << t[1], t[2] >> \in Keys(req)}
  \cup {r \in req : /\ r[1] = OFF_RAISED
                    /\ \E t \in T : << t[1], t[2] >> \notin Keys(req) /\ t[2] = r[2]}

\* C6: whatever the order in which the traced triples are reached, matched
\* depends only on the set of triples reached so far, and the coverage map only
\* on the traced set.
TraceOrderIrrelevant ==
  /\ Matching => matched = MatchedBy(Processed)
  /\ pc = "done" =>
       /\ DOMAIN coverage = {u[3] : u \in req \cup MatchedBy(traced)}
       /\ \A line \in DOMAIN coverage :
            coverage[line][COV_MATCHED] =
              {<< u[1], u[2], code >> : u \in {v \in MatchedBy(traced) : v[3] = line}}

\* C6 witness: two traced triples of one required edge, observed on two lines.
TwoLinesOneEdge ==
  /\ pc = "done"
  /\ \E t, u \in traced :
       /\ t # u
       /\ t[1] = u[1] /\ t[2] = u[2]
       /\ << t[1], t[2] >> \in Keys(req)

\* The snapshots coalesce was given, as a set.
Loaded == {Snapshots[trace_paths[n]] : n \in 1..Len(trace_paths)}
LoadedWithPath(p) == {d \in Loaded : p \in DOMAIN d.path_code_edges}
KeptTargets(d) == {t \in DOMAIN d.target_paths : arg_targets = {} \/ t \in arg_targets}

\* C7: what coalesce hands to report depends only on the set of snapshots:
\* every merged edge set is the union of that code unit's edge sets over the
\* snapshots, and every target's path list is the sorted list of the paths the
\* snapshots give the target.
CoalesceIsUnion ==
  pc = "reported" =>
    /\ DOMAIN path_code_edges = UNION {DOMAIN d.path_code_edges : d \in Loaded}
    /\ \A p \in DOMAIN path_code_edges :
         /\ DOMAIN path_code_edges[p] =
              UNION {DOMAIN d.path_code_edges[p] : d \in LoadedWithPath(p)}
         /\ \A c \in DOMAIN path_code_edges[p] :
              path_code_edges[p][c] =
                UNION {d.path_code_edges[p][c] :
                         d \in {e \in LoadedWithPath(p) : c \in DOMAIN e.path_code_edges[p]}}
    /\ DOMAIN target_path_lists = arg_targets \cup UNION {KeptTargets(d) : d \in Loaded}
    /\ \A t \in DOMAIN target_path_lists :
         LET l == target_path_lists[t]
         IN /\ \A a, b \in 1..Len(l) : a < b => l[a] < l[b]
            /\ {l[a] : a \in 1..Len(l)} =
                 {d.target_paths[t] : d \in {e \in Loaded : t \in KeptTargets(e)}} \ {NoneVal}

\* C7 witness: three snapshots merged, one of them twice, not in path order.
CoalescedRepeated ==
  /\ pc = "reported"
  /\ Len(trace_paths) = 3
  /\ trace_paths[1] = trace_paths[3]
  /\ trace_paths[1] > trace_paths[2]
  /\ Cardinality(DOMAIN path_code_edges) = 3

\* The instructions reachable from the destinations of BEGIN and RAISED.
RECURSIVE Closure(_)
Closure(S) ==
  LET T == S \cup UNION {Get(dsts, x) : x \in S}
  IN IF T = S THEN S ELSE Closure(T)

Reachable == Closure(Get(dsts, OFF_BEGIN) \cup Get(dsts, OFF_RAISED))

ArcPlaces(o) ==
  {p \in UNION {{<< st, n >> : n \in 1..Len(starts_to_arcs[st])} : st \in DOMAIN starts_to_arcs} :
     starts_to_arcs[p[1]][p[2]] = o}

ArcsFound == pc \in {"emit", "match", "done"}

\* C8: after arc formation every reachable instruction is in exactly one arc, at
\* one place; an arc ends only where its last instruction does not have exactly
\* one successor or that successor does not have exactly one predecessor; and
\* the assertion `a[0] not in starts_to_arcs` never fails (nor does find_arcs loop).
ArcPartition ==
  /\ err \notin {"assert a[0] not in starts_to_arcs", "find_arcs does not return"}
  /\ ArcsFound =>
       /\ \A o \in Reachable : Cardinality(ArcPlaces(o)) = 1
       /\ \A st \in DOMAIN starts_to_arcs :
            LET a == starts_to_arcs[st]
                out == Get(dsts, a[Len(a)])
            IN /\ a[1] = st
               /\ \A n \in 1..Len(a) : a[n] \in Reachable
               /\ ~(Cardinality(out) = 1 /\ \A x \in out : Cardinality(Get(srcs, x)) = 1)

\* C8 witness: a code unit with a branch: several arcs, one of them longer than
\* one instruction, and an instruction that is not reachable.
SeveralArcs ==
  /\ ArcsFound
  /\ Cardinality(DOMAIN starts_to_arcs) >= 3
  /\ \E st \in DOMAIN starts_to_arcs : Len(starts_to_arcs[st]) >= 2
  /\ RealOffs \ Reachable # {}

GraphBuilt == pc \in {"arcs", "emit", "match", "done"}

\* C9 (as claimed): every decoded instruction other than BEGIN and RAISED has at
\* least one predecessor edge.
EveryInstHasPred ==
  GraphBuilt => \A o \in RealOffs : Get(srcs, o) # {}

\* C9 (amended): a decoded instruction other than BEGIN and RAISED has no
\* predecessor edge only if it textually follows a stop opcode or a call of exit;
\* every instruction at offset 0 or after an instruction that advances has one,
\* and so has every reachable instruction.
PredUnlessAfterStop ==
  GraphBuilt =>
    /\ \A o \in RealOffs :
         Get(srcs, o) = {} =>
           /\ o # 0
           /\ insts[prevs[o]].opcode \in
                {"BREAK_LOOP", "CONTINUE_LOOP", "JUMP_ABSOLUTE", "JUMP_FORWARD",
                 "RAISE_VARARGS", "RETURN_VALUE", "YIELD_VALUE", "YIELD_FROM"}
              \/ insts[prevs[o]].is_call_exit
    /\ \A o \in Reachable : Get(srcs, o) # {}

\* C9 witness: an instruction after a stop opcode that nothing leads to.
DeadInstruction ==
  /\ GraphBuilt
  /\ \E o \in RealOffs : Get(srcs, o) = {} /\ insts[prevs[o]].opcode \in stop_opcodes

\* C10: when the first instruction starts a line, every line attributed to a
\* required or optional edge and every line of the coverage map is positive,
\* and `assert line > 0` never fails.
LinesPositive ==
  Truthy(Codes[code][1].starts_line) =>
    /\ \A t \in req \cup opt : t[3] > 0
    /\ \A line \in DOMAIN coverage : line > 0
    /\ err # "assert line > 0"

\* C10 witness: a coverage map of a generator with a handler: edges from BEGIN
\* into offset 0 and into the resume point, and an edge from RAISED, were emitted.
ResumeEdgeEmitted ==
  /\ pc = "done"
  /\ \E t \in req \cup opt : t[1] = OFF_BEGIN /\ t[2] # 0
  /\ \E t \in req \cup opt : t[1] = OFF_BEGIN /\ t[2] = 0
  /\ \E t \in req \cup opt : t[1] = OFF_RAISED

\* The position of the instruction at offset o in insts.values().
IndexOf(o) == Cardinality({x \in RealOffs : x < o}) + 1
ScanDone == i > Len(Codes[code])
\* Step 2 went through the instruction at o / raised an exception at it.
Step2Done(o) == ScanDone /\ IndexOf(o) < j
Step2FailedAt(o) ==
  pc = "failed" /\ ScanDone /\ j <= Cardinality(RealOffs) /\ NthOff(j) = o

\* C11 (as claimed): a break-loop whose recorded stack has no setup-loop block
\* ends the analysis with the break-loop exception; a break-loop that has one
\* never fails and gets exactly one successor, the handler of the innermost
\* setup-loop of its stack.
BreakLoopStructuralError ==
  \A o \in RealOffs :
    insts[o].opcode = "BREAK_LOOP" =>
      IF find_block_dst_off(insts[o], {"SETUP_LOOP"}) = NoneVal
      THEN /\ ~Step2Done(o)
           /\ Step2FailedAt(o) => err = "Exception: BREAK_LOOP stack has no SETUP_LOOP block"
      ELSE /\ ~Step2FailedAt(o)
           /\ Step2Done(o) => Get(dsts, o) = {find_block_dst_off(insts[o], {"SETUP_LOOP"})}

ReportOver == n_code > 0 /\ pc \in {"returned", "failed"}

\* C12 (as claimed): when the analysis of one code unit of a path fails, every
\* other code unit of the path still has its required edges in the coverage
\* map the report of the path is made from.
UnitsIsolated ==
  ReportOver =>
    \A k \in 1..Len(all_codes) :
      \/ pc = "failed" /\ k = n_code
      \/ \E line \in DOMAIN reported :
            \E e \in reported[line][COV_REQ] : e[3] = all_codes[k]

EdgesEmitted == pc \in {"match", "done"}
Emitted == req \cup opt
\* The triples emit_edges was called with whose instruction is at offset o.
VisitsOf(o) == {t \in visited : t[1] = o}

\* C13: once the edges are emitted, no edge from a for-iter to its jump target
\* has the for-iter's offset as source: for every entry into the for-iter the
\* edge is emitted from OFF_RAISED, on the line next_line gives for the step
\* from the for-iter itself, and the edge into the loop body keeps the for-iter's
\* offset.
ForIterRewrite ==
  EdgesEmitted =>
    \A o \in RealOffs :
      insts[o].opcode = "FOR_ITER" =>
        LET exit == insts[o].argval
        IN /\ << o, exit >> \notin Keys(Emitted)
           /\ \A t \in VisitsOf(o) :
                /\ << OFF_RAISED, exit, next_line(insts[o], insts[exit], t[2]) >> \in Emitted
                /\ << o, nexts[o], next_line(insts[o], insts[nexts[o]], t[2]) >> \in Emitted
           /\ LinesOf(Emitted, << OFF_RAISED, exit >>) =
                {next_line(insts[o], insts[exit], t[2]) : t \in VisitsOf(o)}

\* C13 witness: a loop whose exit edge was emitted from OFF_RAISED on the line
\* of the for-iter, which is not the line of the exit instruction.
ForIterExitEmitted ==
  /\ pc = "done"
  /\ \E o \in RealOffs :
       /\ insts[o].opcode = "FOR_ITER"
       /\ VisitsOf(o) # {}
       /\ << OFF_RAISED, insts[o].argval, insts[o].line >> \in req
       /\ insts[insts[o].argval].line # insts[o].line

\* The end-finally instructions that have a textually next instruction.
EndFinallys == {o \in RealOffs \cap DOMAIN nexts : insts[o].opcode = "END_FINALLY"}
\* The arcs in which o is followed by n.
ArcsWithStep(o, n) ==
  {st \in DOMAIN starts_to_arcs :
     \E k \in 1..(Len(starts_to_arcs[st]) - 1) :
        starts_to_arcs[st][k] = o /\ starts_to_arcs[st][k + 1] = n}

\* C14: the edge from an end-finally to the textually next instruction is never
\* a required edge, whether the end-finally ends an arc or is inside one; where
\* emit_edges went through the end-finally the edge is an optional edge.
EndFinallyNextOptional ==
  /\ \A o \in EndFinallys : << o, nexts[o] >> \notin Keys(req)
  /\ EdgesEmitted =>
       \A o \in EndFinallys :
         (VisitsOf(o) # {} \/ (ArcsWithStep(o, nexts[o]) # {} /\ o \in Reachable)) =>
           << o, nexts[o] >> \in Keys(opt)

\* C14 witness: an end-finally that ends an arc and one inside an arc that was
\* entered as required, both with their fall-through edge emitted.
EndFinallyBothPlaces ==
  /\ pc = "done"
  /\ \E o \in EndFinallys : VisitsOf(o) # {} /\ << o, nexts[o] >> \in Keys(opt)
  /\ \E o \in EndFinallys :
       /\ << o, nexts[o] >> \in Keys(opt)
       /\ \E st \in ArcsWithStep(o, nexts[o]) :
            \E s \in Get(srcs, st) : << s, st >> \in Keys(req)

\* Neither the step into the arc from src nor a step inside it leaves an end-finally.
NoEndFinallyStep(src, arc) ==
  /\ insts[src].opcode # "END_FINALLY"
  /\ \A k \in 1..(Len(arc) - 1) : insts[arc[k]].opcode # "END_FINALLY"

\* The arcs entered from a visited triple that ended an optional arc, which
\* themselves match no optional rule: << triple, start of the arc >>.
RequiredAfterOptional ==
  {p \in visited \X (DOMAIN starts_to_arcs) :
     /\ p[1][3]
     /\ p[2] \in Get(dsts, p[1][1])
     /\ ~is_arc_opt(p[1][1], starts_to_arcs[p[2]])
     /\ NoEndFinallyStep(p[1][1], starts_to_arcs[p[2]])}

\* C15: when emit_edges enters, from the end of an arc emitted as optional, an
\* arc that matches no optional rule (and has no end-finally step), it adds the
\* edge into the arc as optional and every edge inside the arc as required.
OptionalNotInherited ==
  EdgesEmitted =>
    \A p \in RequiredAfterOptional :
      \A a \in EmitStart(p[1], p[2]).adds :
        IF a[2] = p[2]
        THEN a[4] /\ << a[1], a[2], a[3] >> \in opt
        ELSE ~a[4] /\ << a[1], a[2], a[3] >> \in req

\* C15 witness: the cleanup arc of `except E1 as e1`, optional from RAISED, was
\* followed into the arc of `return False`, whose inner edge is required.
CleanupThenReturn ==
  /\ pc = "done"
  /\ \E p \in RequiredAfterOptional :
       /\ Len(starts_to_arcs[p[2]]) >= 2
       /\ << starts_to_arcs[p[2]][1], starts_to_arcs[p[2]][2] >> \in Keys(req)
       /\ << p[1][1], p[2] >> \in Keys(opt)
       /\ \E st \in DOMAIN starts_to_arcs :
            /\ starts_to_arcs[st][Len(starts_to_arcs[st])] = p[1][1]
            /\ is_arc_exc_as_cleanup(OFF_RAISED, starts_to_arcs[st])

\* The setup-finally instructions step 2 went through.
SetupFinallys == {o \in RealOffs : insts[o].opcode = "SETUP_FINALLY" /\ Step2Done(o)}
\* The instruction after the setup-finally at o is a setup-except whose handler
\* starts with DUP_TOP.
LooksLikeTEF(o) ==
  /\ insts[nexts[o]].opcode = "SETUP_EXCEPT"
  /\ insts[insts[nexts[o]].argval].opcode = "DUP_TOP"

\* C16: the handler of a setup-finally is flagged is_SF_exc_opt exactly when the
\* instruction after the setup-finally is a setup-except whose handler starts
\* with DUP_TOP, and nothing else is flagged; a flagged handler's edge from RAISED
\* is optional, an unflagged one's is required unless is_arc_opt holds for it by
\* another rule.
TEFHeuristic ==
  /\ \A o \in SetupFinallys : insts[insts[o].argval].is_SF_exc_opt <=> LooksLikeTEF(o)
  /\ \A h \in RealOffs :
       insts[h].is_SF_exc_opt => \E o \in SetupFinallys : insts[o].argval = h
  /\ EdgesEmitted =>
       \A o \in SetupFinallys :
         LET h == insts[o].argval
         IN IF LooksLikeTEF(o) \/ is_arc_opt(OFF_RAISED, starts_to_arcs[h])
            THEN RaisedEdge(h) \in Keys(opt) \ Keys(req)
            ELSE RaisedEdge(h) \in Keys(req) \ Keys(opt)

\* C16 witness: a try/except/finally whose finally handler is flagged and whose
\* edge from RAISED was emitted as optional.
TEFFlagged ==
  /\ pc = "done"
  /\ \E o \in SetupFinallys :
       /\ LooksLikeTEF(o)
       /\ insts[insts[o].argval].is_SF_exc_opt
       /\ RaisedEdge(insts[o].argval) \in Keys(opt)

\* Each triple of rec after the first starts where the one before it ended.
Chained(rec) ==
  /\ rec # << >> => rec[1][1] = OFF_BEGIN
  /\ \A k \in 2..Len(rec) : rec[k][1] = rec[k - 1][2]

\* C17: in every activation of a targeted frame (a call, or a resume of a
\* generator) the first triple recorded starts at OFF_BEGIN and every later one
\* starts at the off of the triple recorded before it, one triple per 'opcode'
\* event; an event of another kind changes neither the recorded edges nor any
\* tracer's prev_off; frames of code that is not targeted record nothing.
TracerChaining ==
  /\ [](/\ \A k \in 1..Len(frames) :
            LET a == frames[k]
            IN IF a.tracer
               THEN /\ Chained(a.rec)
                    /\ Len(a.rec) = a.n_opcode
                    /\ \A n \in 1..Len(a.rec) : a.rec[n] \in Get(code_edges, a.code)
               ELSE a.rec = << >>
        /\ \A c \in DOMAIN code_edges : is_code_targeted(c))
  /\ [][event' # "opcode" =>
          /\ code_edges' = code_edges
          /\ \A k \in 1..Len(frames') :
               k <= Len(frames) /\ frames'[k].code = frames[k].code
                 => frames'[k].prev_off = frames[k].prev_off]_vars

\* C17 witness: a generator was resumed and recorded two triples in its second
\* activation, while its caller, a targeted function, has recorded triples too.
TracedResume ==
  /\ Len(frames) = 2
  /\ frames[1].code = "f" /\ Len(frames[1].rec) >= 1
  /\ frames[2].code = "gen" /\ Len(frames[2].rec) >= 2
  /\ frames[2].rec[1][2] # 0

\* The triples the tracer records for one call of `def f(): return 1`.
RunOfRet1 == {<< OFF_BEGIN, 0, 2 >>, << 0, 2, 2 >>}

\* C18 (as claimed): for `def f(): return 1` the required edges of line 2 are
\* exactly the one edge (0, 2).
Ret1OneRequiredEdge ==
  (code = 1 /\ pc = "done") => coverage[2][COV_REQ] = {<< 0, 2, code >>}

\* C18 (amended): for `def f(): return 1` line 2 is the only line of the
\* coverage map and its required edges are exactly (BEGIN, 0) and (0, 2); a
\* traced call of f matches both, so that matched equals required.
Ret1TwoRequiredEdges ==
  (code = 1 /\ pc = "done") =>
    /\ DOMAIN coverage = {2}
    /\ coverage[2][COV_REQ] = {<< OFF_BEGIN, 0, code >>, << 0, 2, code >>}
    /\ traced = RunOfRet1 => coverage[2][COV_MATCHED] = coverage[2][COV_REQ]

\* C18 witness: the coverage of `def f(): return 1` with the trace of one call.
Ret1Covered ==
  /\ code = 1
  /\ pc = "done"
  /\ traced = RunOfRet1
  /\ coverage[2][COV_MATCHED] = coverage[2][COV_REQ]

\* The nodes reachable from the start nodes in the graph succ.
RECURSIVE WalkClosure(_)
WalkClosure(S) ==
  LET T == S \cup UNION {succ[x] : x \in S}
  IN IF T = S THEN S ELSE WalkClosure(T)

WalkReach == WalkClosure(start_nodes)

\* C19: on every graph, cyclic or not, visit_nodes returns; its assertion
\* `node not in visited` never fails; the visitor is called once for each
\* visited node and for no node that is not reachable from the start nodes; and
\* the set returned is the set of reachable nodes.
VisitNodesTotal ==
  /\ [](/\ err # "assert node not in visited"
        /\ DOMAIN calls = visited
        /\ \A n \in visited : calls[n] = 1 /\ n \in WalkReach
        /\ pc = "walked" => visited = WalkReach)
  /\ <>(pc = "walked")

\* C19 witness: visit_nodes returned from a graph with a cycle of two nodes, one
\* of them also its own successor, leaving out a node that is not reachable.
WalkedCycle ==
  /\ pc = "walked"
  /\ visited # WalkNodes
  /\ \E n, m \in visited : n # m /\ m \in succ[n] /\ n \in succ[m] /\ m \in succ[m]

\* The setup opcodes of code unit c are nested: a block that starts inside
\* another block does not end after it.
WellNested(c) ==
  \A a, b \in 1..Len(Codes[c]) :
    (/\ a < b
     /\ Codes[c][a].opcode \in setup_opcodes
     /\ Codes[c][b].opcode \in setup_opcodes
     /\ RawOff(b) < Codes[c][a].argval) => Codes[c][b].argval <= Codes[c][a].argval

\* The offsets up to o of the setup instructions that push the frame fr.
PushersOf(fr, o) ==
  {s \in RealOffs : s <= o /\ insts[s].opcode = fr[1] /\ insts[s].argval = fr[2]}

\* Step 1 is running, has just ended, or was left by an exception; nothing
\* after step 1 changes a recorded stack.
Scanning == pc = "scan" \/ (pc \in {"dsts", "failed"} /\ j = 1)

\* C20: the stack recorded on an instruction holds no block whose handler is
\* the instruction's own offset; the block of a setup instruction is the last
\* frame of its own stack; a frame pushed later comes later; every handler is
\* beyond the instruction and the handlers do not increase from first to last;
\* and for nested blocks the assertion at the push never fails.
BlockStackRecorded ==
  /\ Scanning =>
       \A o \in RealOffs :
         LET st == insts[o].stack
         IN /\ \A k \in 1..Len(st) : st[k][2] # o /\ st[k][2] > o
            /\ insts[o].opcode \in setup_opcodes =>
                 Len(st) > 0 /\ st[Len(st)] = << insts[o].opcode, insts[o].argval >>
            /\ \A k, m \in 1..Len(st) :
                 k < m => /\ st[k][2] >= st[m][2]
                          /\ \E s \in PushersOf(st[k], o) : \E t \in PushersOf(st[m], o) : s < t
  /\ WellNested(code) => err # "assert all(dst <= d for _, d in blocks)"

\* C20 witness: a finished scan with an instruction inside two blocks, and a
\* handler instruction recorded without the block it ends.
NestedBlocksRecorded ==
  /\ pc = "dsts"
  /\ j = 1
  /\ \E o \in RealOffs : Len(insts[o].stack) = 2
  /\ \E s \in RealOffs :
       /\ insts[s].opcode \in setup_opcodes
       /\ Len(insts[s].stack) = 2
       /\ Len(insts[insts[s].argval].stack) = 1
====
